---- MODULE Spec2Model ----
(***************************************************************************)
(* Lead scoring and pipeline orchestration of the Nexus automation         *)
(* pipeline: scripts/lead_gen.py (scoring engine), scripts/outreach.py,    *)
(* scripts/sales.py, scripts/fulfillment.py, scripts/ops.py (stage         *)
(* agents over the file-backed store) and scripts/run_pipeline.py          *)
(* (orchestrator).                                                         *)
(*                                                                         *)
(* Free text is modelled by the set of phrases it contains; a detector     *)
(* "p in text_lower" is the test that some phrase of the text has p as a   *)
(* substring (Substrings).  Random draws and external collectors are       *)
(* inputs chosen with \E.                                                  *)
(***************************************************************************)
EXTENDS Integers, Sequences, FiniteSets, TLC

VARIABLES
    item,        \* the signal record handed to calculate_score
    scored,      \* TRUE once calculate_score has returned for item
    lead,        \* its return value (NoLead for None)
    earlier,     \* what the calls before the latest returned for item
    call,        \* the meeting and answers handed to simulate_discovery_call
    outcome,     \* its return value
    leadFiles,   \* leads_<timestamp>.json files in name order, each a list of leads
    files,       \* the single-file collections: name -> [exists, items]
    reports,     \* number of reports Ops has written
    errorLog,    \* errors.log, one entry per log_error call
    pc,          \* position of run_full_pipeline
    calls,       \* stages invoked so far by the current pipeline run
    returned,    \* for each of them, how many records its run() handed back
    raised,      \* stages of the current pipeline run that raised
    lastOp,      \* the latest stage invocation: its inputs and what it appended
    nurtured,    \* leads a Sales run has nurtured so far (printed, never stored)
    invocations, \* scripts started so far: pipeline runs and stand-alone stages
    runs         \* run_pipeline.py processes started side by side: position, locals

scoreVars == <<item, scored, lead, earlier, call, outcome>>

storeVars == <<leadFiles, files, reports>>

runVars == <<errorLog, pc, calls, returned, raised>>

histVars == <<lastOp, nurtured>>

vars == <<item, scored, lead, earlier, call, outcome, leadFiles, files, reports,
          errorLog, pc, calls, returned, raised, lastOp, nurtured,
          invocations, runs>>

----------------------------------------------------------------------------
(* Bounds *)

MaxWords == 3        \* phrases in the text of an enumerated signal record
MaxInvocations == 2  \* scripts started in a behaviour (run_pipeline.py or a stage script)
MaxWordsAgain == 2   \* phrases in the text of a signal record that is scored twice

----------------------------------------------------------------------------
(* Text as a set of phrases *)

\* the detector patterns that occur as substrings of each phrase
Substrings(w) ==
    CASE w = "manually"       -> {"manual", "manually"}
      [] w = "reconciling"    -> {"reconciling"}
      [] w = "reconciliation" -> {"reconciliation"}
      [] w = "inventory"      -> {"inventory"}
      [] w = "hiring"         -> {"hiring"}
      [] w = "headcount"      -> {"headcount"}
      [] w = "every week"     -> {"every week"}
      [] w = "insane"         -> {"insane"}
      [] w = "client"         -> {"client"}
      [] w = "consulting"     -> {"consulting"}
      [] w = "software"       -> {"software"}
      [] w = "hiring manager" -> {"hiring", "manager"}
      [] w = "founder"        -> {"founder"}
      [] w = "cto"            -> {"cto"}
      [] w = "head of"        -> {"head of"}
      [] w = "manager"        -> {"manager"}
      [] OTHER                -> {w}

\* p in text_lower
Has(text, p) == \E w \in text : p \in Substrings(w)

\* any(p in text_lower for p in patterns)
HasAny(text, patterns) ==
    \E i \in 1..Len(patterns) : Has(text, patterns[i])

NoHours == -1        \* re.search found no "<n> hours" mention
NoLead == [none |-> TRUE]

----------------------------------------------------------------------------
(* Scoring engine: scripts/lead_gen.py *)

\* item.get('text') + ' ' + item.get('description') + ' ' + item.get('title')
FullText(it) == it.text \cup it.title

keyword_patterns ==
    << [category |-> "data entry",     patterns |-> <<"data entry">>],
       [category |-> "manual",         patterns |-> <<"manual", "manually">>],
       [category |-> "spreadsheet",    patterns |-> <<"spreadsheet", "excel">>],
       [category |-> "copy",           patterns |-> <<"copy", "copying", "paste", "pasting">>],
       [category |-> "reconciliation", patterns |-> <<"reconciliation", "reconciling">>],
       [category |-> "inventory",      patterns |-> <<"inventory">>],
       [category |-> "hiring",         patterns |-> <<"hiring", "hire">>] >>

\* the two emoji of the list are left out: no phrase of the vocabulary has one
emotion_words == <<"killing", "insane", "brutal", "hell", "nightmare">>

recurring_phrases ==
    <<"every day", "every morning", "every week",
      "each day", "each morning", "each week">>

\* the points of the lowest tier given without a match
TimePoints_unmatched(hours) ==
    IF hours >= 20 THEN 35
    ELSE IF hours >= 5 THEN 25
    ELSE 15

TimePoints(hours) ==
    IF hours = NoHours THEN 0
    ELSE IF hours >= 20 THEN 35
    ELSE IF hours >= 5 THEN 25
    ELSE 15

\* index of the first keyword category that matches, 0 when none does
FirstKeyword(text) ==
    LET hits == {i \in 1..Len(keyword_patterns) :
                    HasAny(text, keyword_patterns[i].patterns)}
    IN  IF hits = {} THEN 0
        ELSE CHOOSE i \in hits : \A j \in hits : i <= j

\* 15 points for every category that matches: the loop without its break
KeywordPoints_per_category(text) ==
    15 * Cardinality({i \in 1..Len(keyword_patterns) :
                         HasAny(text, keyword_patterns[i].patterns)})

KeywordPoints(text) == IF FirstKeyword(text) = 0 THEN 0 ELSE 15

FrequencyPoints(text) == IF HasAny(text, recurring_phrases) THEN 20 ELSE 0

EmotionPoints(text) == IF HasAny(text, emotion_words) THEN 20 ELSE 0

\* the hiring term dropped from the mention test
HiringPoints_headcount_only(text) ==
    IF Has(text, "headcount") THEN 25 ELSE 0

HiringPoints(text) ==
    IF Has(text, "hiring") \/ Has(text, "headcount") THEN 25 ELSE 0

Min(a, b) == IF a <= b THEN a ELSE b

pain_signals(text, hours) ==
    (IF hours = NoHours THEN {}
     ELSE IF hours >= 20 THEN {"High time cost"}
     ELSE IF hours >= 5 THEN {"Moderate time cost"}
     ELSE {"Time mentioned"})
    \cup (IF FrequencyPoints(text) > 0 THEN {"Daily recurring pain"} ELSE {})
    \cup (IF FirstKeyword(text) = 0 THEN {}
          ELSE {keyword_patterns[FirstKeyword(text)].category})
    \cup (IF EmotionPoints(text) > 0 THEN {"Emotional intensity high"} ELSE {})
    \cup (IF HiringPoints(text) > 0 THEN {"Budget confirmed: hiring"} ELSE {})

score_pain(text, hours) ==
    Min(TimePoints(hours) + FrequencyPoints(text) + KeywordPoints(text)
          + EmotionPoints(text) + HiringPoints(text), 100)

authority_tiers ==
    << [keywords |-> <<"founder", "ceo", "owner", "co-founder">>, points |-> 45],
       [keywords |-> <<"cto", "coo", "chief">>,                   points |-> 40],
       [keywords |-> <<"head of", "vp ", "vice president">>,      points |-> 30],
       [keywords |-> <<"director", "manager">>,                   points |-> 20] >>

RolePoints(combined) ==
    LET hits == {i \in 1..Len(authority_tiers) :
                    HasAny(combined, authority_tiers[i].keywords)}
    IN  IF hits = {} THEN 0
        ELSE authority_tiers[CHOOSE i \in hits : \A j \in hits : i <= j].points

FollowerPoints(followers) ==
    IF followers > 5000 THEN 25
    ELSE IF followers > 1000 THEN 15
    ELSE IF followers > 500 THEN 10
    ELSE 0

AuthorityRaw(it) == RolePoints(it.bio \cup it.title) + FollowerPoints(it.followers)

AuthorityTier(score) ==
    IF score >= 60 THEN "decision_maker"
    ELSE IF score >= 35 THEN "influencer"
    ELSE "individual"

score_authority(it) ==
    [score |-> Min(AuthorityRaw(it), 100), tier |-> AuthorityTier(AuthorityRaw(it))]

industry_indicators ==
    << [keywords |-> <<"ecommerce", "shopify", "amazon", "etsy", "inventory", "product">>,
        industry |-> "ecommerce"],
       [keywords |-> <<"saas", "software", "api", "platform", "tech company">>,
        industry |-> "saas"],
       [keywords |-> <<"agency", "client", "marketing", "brand">>,
        industry |-> "agency"],
       [keywords |-> <<"fintech", "finance", "reconciliation", "payment", "banking">>,
        industry |-> "fintech"],
       [keywords |-> <<"consulting", "advisor", "services">>,
        industry |-> "consulting"] >>

\* reads text and description only, not the title
detect_industry(it) ==
    LET hits == {i \in 1..Len(industry_indicators) :
                    HasAny(it.text, industry_indicators[i].keywords)}
    IN  IF hits = {} THEN "other"
        ELSE industry_indicators[CHOOSE i \in hits : \A j \in hits : i <= j].industry

\* the multipliers table, in hundredths
multipliers(industry) ==
    CASE industry = "saas"       -> 100
      [] industry = "ecommerce"  -> 100
      [] industry = "agency"     -> 95
      [] industry = "fintech"    -> 95
      [] industry = "consulting" -> 90
      [] OTHER                   -> 80

budget_proxy(it) ==
    IF Has(FullText(it), "hiring") THEN 85
    ELSE IF it.company_size \in {"50-100", "100-200"} THEN 75
    ELSE IF it.company_size \in {"25-50"} THEN 65
    ELSE 60

\* round() in the place of int()
composite_total_rounded(pain, authority, budget, mult) ==
    ((pain * 45 + authority * 30 + budget * 25) * mult + 5000) \div 10000

\* int((pain * 0.45 + authority * 0.30 + budget * 0.25) * multiplier):
\* int() drops the fraction
composite_total(pain, authority, budget, mult) ==
    ((pain * 45 + authority * 30 + budget * 25) * mult) \div 10000

\* the thresholds compared with > in the place of >=
lead_tier_exclusive(total) ==
    IF total > 85 THEN "hot" ELSE IF total > 75 THEN "warm" ELSE "cool"

lead_tier(total) ==
    IF total >= 85 THEN "hot" ELSE IF total >= 75 THEN "warm" ELSE "cool"

\* the template picked by which call it is, not by the text alone
_generate_hook_by_call(it) ==
    IF scored THEN "manual work"
    ELSE IF Has(it.text, "inventory") THEN "inventory"
    ELSE "client reports"

_generate_hook(it) ==
    IF Has(it.text, "inventory") THEN "inventory"
    ELSE IF Has(it.text, "report") \/ Has(it.text, "client") THEN "client reports"
    ELSE IF Has(it.text, "reconciliation") \/ Has(it.text, "data") THEN "reconciliation"
    ELSE "manual work"

_recommend_offer(industry, text) ==
    IF Has(text, "inventory") THEN "inventory sync"
    ELSE IF Has(text, "report") THEN "client reporting"
    ELSE IF Has(text, "reconciliation") THEN "reconciliation workflow"
    ELSE IF Has(text, "data entry") THEN "data entry bot"
    ELSE IF industry = "agency" THEN "client onboarding"
    ELSE IF industry = "saas" THEN "user provisioning"
    ELSE "custom workflow"

\* a threshold five points higher
min_score_stricter == 50 + 5

min_score == 50

pain_prefilter == 40

calculate_score(it) ==
    LET text     == FullText(it)
        pain     == score_pain(text, it.hours)
        auth     == score_authority(it)
        industry == detect_industry(it)
        budget   == budget_proxy(it)
        total    == composite_total(pain, auth.score, budget, multipliers(industry))
    IN  IF pain < pain_prefilter THEN NoLead
        ELSE IF total < min_score THEN NoLead
        ELSE [ none      |-> FALSE,
               id        |-> <<"nexus", it.id>>,
               pain      |-> [score |-> pain, signals |-> pain_signals(text, it.hours)],
               authority |-> auth,
               context   |-> [industry |-> industry,
                              company_size |-> it.company_size,
                              budget_score |-> budget],
               score     |-> [total |-> total, tier |-> lead_tier(total)],
               outreach  |-> [status |-> "pending",
                              hook   |-> _generate_hook(it),
                              offer  |-> _recommend_offer(industry, text)] ]

----------------------------------------------------------------------------
(* Signal records the scoring engine is applied to *)

TextVocab ==
    {"manually", "inventory", "hiring", "headcount", "every week", "insane",
     "client", "consulting", "software", "reconciliation"}

TitleVocab == {"hiring manager"}

BioChoices == {{}, {"founder"}, {"cto"}, {"head of"}, {"manager"}}

HourChoices == {NoHours, 4, 5, 20}

FollowerChoices == {500, 501, 1001, 6000}

SizeChoices == {"unknown", "25-50", "50-100"}

\* "Spending 20+ hours every week manually reconciling inventory, currently
\* hiring a 4th ops person", by a Founder with 6000 followers
ScenarioItem ==
    [ id |-> "scenario",
      text |-> {"every week", "manually", "reconciling", "inventory", "hiring"},
      title |-> {}, bio |-> {"founder"}, hours |-> 20, followers |-> 6000,
      company_size |-> "unknown" ]

SignalRecords(maxWords) ==
    { [ id |-> "sig", text |-> t, title |-> ti, bio |-> b, hours |-> h,
        followers |-> f, company_size |-> s ] :
        t \in {x \in SUBSET TextVocab : Cardinality(x) <= maxWords},
        ti \in SUBSET TitleVocab, b \in BioChoices, h \in HourChoices,
        f \in FollowerChoices, s \in SizeChoices }
    \cup {ScenarioItem}

\* after tw_002 of the mock sources: the CTO of a larger SaaS company
CtoItem ==
    [ id |-> "tw_002",
      text |-> {"every week", "manually", "headcount", "software"},
      title |-> {}, bio |-> {"cto"}, hours |-> 20, followers |-> 6000,
      company_size |-> "100-200" ]

\* tw_004 of the mock sources: "Manual testing is boring, wish it was automated"
QuietItem ==
    [ id |-> "tw_004", text |-> {"manually"}, title |-> {}, bio |-> {},
      hours |-> NoHours, followers |-> 340, company_size |-> "unknown" ]

\* a record without text, description or title: item.get(..., '') for each
BlankItem ==
    [ id |-> "blank", text |-> {}, title |-> {}, bio |-> {},
      hours |-> NoHours, followers |-> 0, company_size |-> "unknown" ]

\* a founder's post that names no cost, frequency, keyword, emotion or hiring
ChatterItem ==
    [ id |-> "chatter", text |-> {"client", "software"}, title |-> {},
      bio |-> {"founder"}, hours |-> NoHours, followers |-> 6000,
      company_size |-> "50-100" ]

\* the batches all_raw takes: nothing, a signal that is filtered out, one
\* qualifying signal, two qualifying signals with the weaker one first, and
\* a qualifying signal behind two records without any pain signal
Batches ==
    {<<>>, <<QuietItem>>, <<ScenarioItem>>, <<CtoItem, ScenarioItem>>,
     <<BlankItem, ChatterItem, ScenarioItem>>}

----------------------------------------------------------------------------
(* Pipeline state store *)

Collections ==
    {"outreach", "meetings", "deals", "clients", "case_studies", "invoices"}

NoFile == [exists |-> FALSE, items |-> <<>>]

\* if filepath.exists(): content = f.read().strip(); if content: json.loads(content)
load_file(f) == IF f.exists THEN f.items ELSE <<>>

\* the batch dumped without the existing records
overwrite_file(f, batch) == [exists |-> TRUE, items |-> batch]

\* existing = <load>; existing.extend(batch); json.dump(existing, f)
append_file(f, batch) == [exists |-> TRUE, items |-> load_file(f) \o batch]

NoBatches == [c \in Collections |-> <<>>]

\* for filepath in PIPELINE_DIR.glob("leads_*.json"): leads.extend(json.load(f)),
\* the files taken in name order
RECURSIVE load_leads(_)
load_leads(lf) ==
    IF lf = <<>> THEN <<>> ELSE Head(lf) \o load_leads(Tail(lf))

\* filepath = PIPELINE_DIR / f"leads_{timestamp}.json"; open(filepath, 'w'):
\* the timestamp has one-second resolution, so a run in the second of the
\* latest file writes over it, and a later run adds a file
write_leads(lf, same_second, content) ==
    IF same_second /\ lf # <<>> THEN [lf EXCEPT ![Len(lf)] = content]
    ELSE Append(lf, content)

----------------------------------------------------------------------------
(* Lead generation stage: LeadGenAgent.run *)

RECURSIVE ScoreAll(_)
ScoreAll(batch) ==
    IF batch = <<>> THEN <<>>
    ELSE LET l == calculate_score(Head(batch))
         IN  (IF l.none THEN <<>> ELSE <<l>>) \o ScoreAll(Tail(batch))

\* insert l behind every lead whose total is not smaller (the sort is stable)
RECURSIVE InsertByTotal(_, _)
InsertByTotal(sorted, l) ==
    IF sorted = <<>> THEN <<l>>
    ELSE IF Head(sorted).score.total >= l.score.total
         THEN <<Head(sorted)>> \o InsertByTotal(Tail(sorted), l)
         ELSE <<l>> \o sorted

RECURSIVE SortByTotal(_)
SortByTotal(leads) ==
    IF leads = <<>> THEN <<>>
    ELSE InsertByTotal(SortByTotal(SubSeq(leads, 1, Len(leads) - 1)),
                       leads[Len(leads)])

\* leads.sort(key=lambda x: x['score']['total'], reverse=True); the stored
\* leads are kept without discovered_at, which no stage reads
scored_leads(batch) == SortByTotal(ScoreAll(batch))

\* the leads of every batch the collectors can return
LeadsOfBatch == [batch \in Batches |-> scored_leads(batch)]

lead_gen_leads(batch) == LeadsOfBatch[batch]

----------------------------------------------------------------------------
(* Outreach stage: OutreachAgent *)

\* the --tier filters tried; "all" is tier=None
Tiers == {"all", "hot"}

load_pending_leads(lf, tier) ==
    SelectSeq(load_leads(lf),
              LAMBDA l : /\ l.outreach.status = "pending"
                         /\ (tier = "all" \/ l.score.tier = tier))

\* what random.random() and random.choice(reply_types) come to
ReplyDraws == {"no_reply", "positive", "curious", "not_now"}

NoReply == [type |-> "none", outcome |-> "none"]

simulate_reply(draw) ==
    CASE draw = "positive" -> [type |-> "positive", outcome |-> "meeting_booked"]
      [] draw = "curious"  -> [type |-> "curious",  outcome |-> "reply_received"]
      [] draw = "not_now"  -> [type |-> "not_now",  outcome |-> "nurture"]
      [] OTHER             -> NoReply

\* the reply the run goes on with after step 1
step_reply(draw) ==
    LET reply == simulate_reply(draw)
    IN  IF reply = NoReply \/ reply.outcome = "nurture"
        THEN [type |-> "positive", outcome |-> "meeting_booked"]
        ELSE reply

books_meeting(reply) ==
    reply # NoReply /\ reply.outcome \in {"meeting_booked", "reply_received"}

\* lead['outreach']['status'] = 'active' if not dry_run else 'pending'
touched_lead(l, dry_run) ==
    [l EXCEPT !.outreach.status = IF dry_run THEN "pending" ELSE "active"]

\* every pending lead, the daily limit left out
outreach_batch_uncapped(lf, tier, limit) == load_pending_leads(lf, tier)

\* leads[:self.config['outreach']['daily_limit']]
outreach_batch(lf, tier, limit) ==
    LET leads == load_pending_leads(lf, tier)
    IN  SubSeq(leads, 1, Min(Len(leads), limit))

RECURSIVE meetings_booked(_, _, _)
meetings_booked(leads, draws, dry_run) ==
    IF leads = <<>> THEN <<>>
    ELSE LET reply == step_reply(Head(draws))
         IN  (IF books_meeting(reply)
              THEN << [lead_id |-> Head(leads).id,
                       lead    |-> touched_lead(Head(leads), dry_run),
                       reply   |-> reply.type] >>
              ELSE <<>>)
             \o meetings_booked(Tail(leads), Tail(draws), dry_run)

outreach_log(leads, dry_run) ==
    [i \in 1..Len(leads) |->
        [lead_id       |-> leads[i].id,
         sequence_name |-> IF leads[i].score.total >= 85 THEN "Direct Value"
                           ELSE "Standard",
         steps_count   |-> 3,
         status        |-> IF dry_run THEN "simulated" ELSE "active"]]

_save_outreach(fs, log, meetings) ==
    [fs EXCEPT !["outreach"] = append_file(@, log),
               !["meetings"] = IF meetings # <<>> THEN append_file(@, meetings)
                               ELSE @]

----------------------------------------------------------------------------
(* Sales stage: SalesAgent *)

\* the questions _generate_answer has answers for; a question text is the
\* set of detector patterns it contains
KnownQuestions == {"manual_work", "hours_per_week", "not_done", "tried_before", "cost"}

QuestionText(q) ==
    CASE q = "manual_work"    -> {"manual"}
      [] q = "hours_per_week" -> {"hours"}
      [] q = "cost"           -> {"cost", "manual"}
      [] OTHER                -> {}

\* the answers table of _generate_answer, each answer as the patterns in it
answers(q) ==
    CASE q = "manual_work" ->
            << {"copying", "data", "crm", "billing", "hours", "daily"},
               {"inventory", "reconciliation", "shopify", "amazon", "nightmare"},
               {"client", "report", "data", "weekly", "deck", "hours"} >>
      [] q = "hours_per_week" ->
            << {"30-40", "hours"},
               {"25 hours"},
               {"50+ hours", "full-time", "person"} >>
      [] q = "not_done" ->
            << {"client", "nightmare"},
               {"inventory", "hell"},
               {"client", "report", "weekly"} >>
      [] q = "tried_before" ->
            << {}, {}, {"cost"} >>
      [] q = "cost" ->
            << {"hiring", "3rd person", "next quarter", "60k"},
               {"cost", "copy"},
               {"client", "report"} >>
      [] OTHER -> << {} >>                      \* ["It's complicated."]

\* the patterns inside the multi-word phrases of the answers
NoteSubstrings(w) ==
    CASE w = "25 hours"   -> {"25 hours", "hours"}
      [] w = "50+ hours"  -> {"50+ hours", "hours"}
      [] w = "3rd person" -> {"3rd person", "person"}
      [] w = "copying"    -> {"copying", "copy"}
      [] OTHER            -> {w}

NoteHas(text, p) == \E w \in text : p \in NoteSubstrings(w)

NoteHasAny(text, patterns) == \E p \in patterns : NoteHas(text, p)

\* discovery_notes[q] = answer: notes is the list of (question, pick) pairs
note_text(n) == answers(n.q)[n.a]

\* str(notes): every question and every answer
notes_str(notes) ==
    UNION {QuestionText(notes[i].q) \cup note_text(notes[i]) : i \in 1..Len(notes)}

qual_pain_keywords == {"hours", "nightmare", "hell", "daily", "weekly", "copying", "manual"}

qual_budget_keywords == {"hiring", "60k", "cost", "expensive", "person"}

Mentions(notes, keywords) ==
    Cardinality({i \in 1..Len(notes) : NoteHasAny(note_text(notes[i]), keywords)})

_qualify_opportunity(l, notes) ==
    LET pain_score     == Min(Mentions(notes, qual_pain_keywords) * 10, 30)
        budget_score   == Min(Mentions(notes, qual_budget_keywords) * 12, 25)
        timeline_score == IF NoteHas(notes_str(notes), "next quarter")
                             \/ NoteHas(notes_str(notes), "monthly")
                          THEN 20 ELSE 15
        dm_score       == IF l.authority.tier = "decision_maker" THEN 20 ELSE 10
    IN  [score          |-> pain_score + budget_score + timeline_score + dm_score,
         pain_confirmed |-> pain_score >= 20,
         budget_confirmed |-> budget_score >= 12,
         decision_maker |-> dm_score >= 20]

\* the size bracket looked at only when no budget phrase decided the tier
deal_terms_budget_first(l, notes) ==
    LET sig == notes_str(notes)
    IN  IF NoteHasAny(sig, {"60k", "3rd person", "hiring", "50+ hours", "full-time"})
        THEN [tier |-> "growth", value |-> 2000]
        ELSE IF l.context.company_size \in {"100-200", "200+"}
             THEN [tier |-> "enterprise", value |-> 5000]
             ELSE [tier |-> "starter", value |-> 500]

deal_terms(l, notes) ==
    LET sig == notes_str(notes)
        base == IF NoteHasAny(sig, {"60k", "3rd person", "hiring"})
                    THEN [tier |-> "growth", value |-> 2000]
                ELSE IF NoteHasAny(sig, {"50+ hours", "full-time"})
                    THEN [tier |-> "growth", value |-> 2000]
                ELSE [tier |-> "starter", value |-> 500]
    IN  IF l.context.company_size \in {"100-200", "200+"}
        THEN [tier |-> "enterprise", value |-> 5000]
        ELSE base

_close_deal(l, notes, qualification) ==
    [id            |-> <<"deal">> \o l.id,
     lead_id       |-> l.id,
     tier          |-> deal_terms(l, notes).tier,
     value         |-> deal_terms(l, notes).value,
     status        |-> "closed_won",
     discovery_notes |-> notes,
     qualification |-> qualification.score,
     fulfillment_status |-> "none"]

qualification_minimum == 50

\* a call that closes from a qualification score of 45
simulate_discovery_call_lenient(meeting, questions, picks) ==
    LET notes == [i \in 1..Len(questions) |-> [q |-> questions[i], a |-> picks[i]]]
        qualification == _qualify_opportunity(meeting.lead, notes)
    IN  IF qualification.score >= 45
        THEN [outcome |-> "closed_won",
              deal |-> <<_close_deal(meeting.lead, notes, qualification)>>]
        ELSE [outcome |-> "nurture", deal |-> <<>>]

\* simulate_discovery_call: picks[i] is random.choice for the i-th question
discovery_notes(questions, picks) ==
    [i \in 1..Len(questions) |-> [q |-> questions[i], a |-> picks[i]]]

simulate_discovery_call(meeting, questions, picks) ==
    LET notes == discovery_notes(questions, picks)
        qualification == _qualify_opportunity(meeting.lead, notes)
    IN  IF qualification.score >= qualification_minimum
        THEN [outcome |-> "closed_won",
              deal |-> <<_close_deal(meeting.lead, notes, qualification)>>]
        ELSE [outcome |-> "nurture", deal |-> <<>>]

\* the picks random.choice can make for a list of questions
AnswerPicks(questions) ==
    {p \in [1..Len(questions) -> 1..3] :
        \A i \in 1..Len(questions) : p[i] <= Len(answers(questions[i]))}

RECURSIVE sales_deals(_, _, _)
sales_deals(meetings, questions, picks) ==
    IF meetings = <<>> THEN <<>>
    ELSE simulate_discovery_call(Head(meetings), questions, Head(picks)).deal
         \o sales_deals(Tail(meetings), questions, Tail(picks))

\* nurtures.append({"lead_id": meeting['lead']['id'], ...}) for every call
\* that did not close
RECURSIVE sales_nurtures(_, _, _)
sales_nurtures(meetings, questions, picks) ==
    IF meetings = <<>> THEN <<>>
    ELSE (IF simulate_discovery_call(Head(meetings), questions, Head(picks)).outcome
                = "closed_won"
          THEN <<>> ELSE <<Head(meetings).lead.id>>)
         \o sales_nurtures(Tail(meetings), questions, Tail(picks))

\* the leads of the meetings that ended in nurture
nurtured_leads(meetings, questions, picks) ==
    {meetings[i].lead_id : i \in
        {k \in 1..Len(meetings) :
            simulate_discovery_call(meetings[k], questions, picks[k]).outcome
                = "nurture"}}

_save_deals(fs, deals) == [fs EXCEPT !["deals"] = append_file(@, deals)]

\* the unlink left out
keep_meetings(fs) == fs

\* meetings_file.unlink()
clear_meetings(fs) == [fs EXCEPT !["meetings"] = NoFile]

----------------------------------------------------------------------------
(* Fulfillment stage: FulfillmentAgent *)

load_closed_deals(fs) ==
    SelectSeq(load_file(fs["deals"]),
              LAMBDA d : d.fulfillment_status # "completed")

\* ' '.join(notes.values()): the answers only
pain_text(notes) == UNION {note_text(notes[i]) : i \in 1..Len(notes)}

analyze_workflow(deal) ==
    LET t == pain_text(deal.discovery_notes)
    IN  IF NoteHasAny(t, {"inventory", "shopify", "amazon"}) THEN "inventory_sync"
        ELSE IF NoteHas(t, "report") \/ (NoteHas(t, "client") /\ NoteHas(t, "deck"))
             THEN "client_reporting"
        ELSE IF NoteHasAny(t, {"reconciliation", "billing"})
             THEN "financial_reconciliation"
        ELSE IF NoteHasAny(t, {"crm", "data"}) THEN "data_sync"
        ELSE "custom_automation"

\* random.random() < success_rate
simulate_build(deal, success) == IF success THEN "completed" ELSE "needs_review"

new_client(deal) ==
    [id      |-> <<"client">> \o deal.id,
     deal_id |-> deal.id,
     tier    |-> deal.tier,
     mrr     |-> deal.value,
     status  |-> "active",
     automation |-> analyze_workflow(deal)]

new_case_study(deal) ==
    [id |-> <<"case">> \o deal.id, client |-> deal.lead_id]

RECURSIVE built_clients(_, _)
built_clients(deals, builds) ==
    IF deals = <<>> THEN <<>>
    ELSE (IF simulate_build(Head(deals), Head(builds)) = "completed"
          THEN <<new_client(Head(deals))>> ELSE <<>>)
         \o built_clients(Tail(deals), Tail(builds))

\* a case study written for every deal, whatever the build came to
RECURSIVE built_case_studies_always(_, _)
built_case_studies_always(deals, builds) ==
    IF deals = <<>> THEN <<>>
    ELSE <<new_case_study(Head(deals))>>
         \o built_case_studies_always(Tail(deals), Tail(builds))

RECURSIVE built_case_studies(_, _)
built_case_studies(deals, builds) ==
    IF deals = <<>> THEN <<>>
    ELSE (IF simulate_build(Head(deals), Head(builds)) = "completed"
          THEN <<new_case_study(Head(deals))>> ELSE <<>>)
         \o built_case_studies(Tail(deals), Tail(builds))

\* deal['fulfillment_status'] = outcome['status']
processed_deals(deals, builds) ==
    [i \in 1..Len(deals) |->
        [deals[i] EXCEPT !.fulfillment_status = simulate_build(deals[i], builds[i])]]

_save_clients(fs, clients) == [fs EXCEPT !["clients"] = append_file(@, clients)]

_save_case_studies(fs, case_studies) ==
    [fs EXCEPT !["case_studies"] = append_file(@, case_studies)]

\* json.dump(deals, f) over deals.json
_update_deals(fs, deals) ==
    [fs EXCEPT !["deals"] = [exists |-> TRUE, items |-> deals]]

----------------------------------------------------------------------------
(* Ops stage: OpsAgent *)

RECURSIVE SumOf(_, _)
SumOf(seq, field) ==
    IF seq = <<>> THEN 0 ELSE Head(seq)[field] + SumOf(Tail(seq), field)

load_pipeline(lf, fs) ==
    [leads        |-> load_leads(lf),
     outreach     |-> load_file(fs["outreach"]),
     deals        |-> load_file(fs["deals"]),
     clients      |-> load_file(fs["clients"]),
     case_studies |-> load_file(fs["case_studies"])]

report_summary(data) ==
    LET closed_deals   == SelectSeq(data.deals, LAMBDA d : d.status = "closed_won")
        active_clients == SelectSeq(data.clients, LAMBDA c : c.status = "active")
    IN  [total_leads      |-> Len(data.leads),
         hot_leads        |-> Len(SelectSeq(data.leads, LAMBDA l : l.score.tier = "hot")),
         warm_leads       |-> Len(SelectSeq(data.leads, LAMBDA l : l.score.tier = "warm")),
         deals_closed     |-> Len(closed_deals),
         total_deal_value |-> SumOf(closed_deals, "value"),
         active_clients   |-> Len(active_clients),
         total_mrr        |-> SumOf(active_clients, "mrr"),
         case_studies     |-> Len(data.case_studies)]

\* total_mrr taken from the invoice requests in the place of the clients
generate_report_billed(lf, fs) ==
    [summary |-> [report_summary(load_pipeline(lf, fs)) EXCEPT
                    !.total_mrr = SumOf(load_file(fs["invoices"]), "total_due")]]

generate_report(lf, fs) == [summary |-> report_summary(load_pipeline(lf, fs))]

ZeroSummary == report_summary([leads |-> <<>>, outreach |-> <<>>, deals |-> <<>>,
                               clients |-> <<>>, case_studies |-> <<>>])

\* a client is billed only while the Invoice collection holds no request for it
RECURSIVE generate_invoice_requests_once(_, _)
generate_invoice_requests_once(clients, invoices) ==
    IF clients = <<>> THEN <<>>
    ELSE (IF \/ Head(clients).status # "active"
             \/ \E i \in 1..Len(invoices) :
                    invoices[i].id = <<"inv">> \o Head(clients).id
          THEN <<>>
          ELSE << [id        |-> <<"inv">> \o Head(clients).id,
                   status    |-> "pending_manual_send",
                   amount    |-> Head(clients).mrr,
                   total_due |-> Head(clients).mrr] >>)
         \o generate_invoice_requests_once(Tail(clients), invoices)

\* the invoices of an Ops run that skips the clients billed before
ops_invoices_once(lf, fs, generate_invoices) ==
    IF generate_invoices /\ load_pipeline(lf, fs).clients # <<>>
    THEN generate_invoice_requests_once(load_pipeline(lf, fs).clients,
                                        load_file(fs["invoices"]))
    ELSE <<>>

RECURSIVE generate_invoice_requests(_)
generate_invoice_requests(clients) ==
    IF clients = <<>> THEN <<>>
    ELSE (IF Head(clients).status # "active" THEN <<>>
          ELSE << [id        |-> <<"inv">> \o Head(clients).id,
                   status    |-> "pending_manual_send",
                   amount    |-> Head(clients).mrr,
                   total_due |-> Head(clients).mrr] >>)
         \o generate_invoice_requests(Tail(clients))

\* the invoices an Ops run appends
ops_invoices(lf, fs, generate_invoices) ==
    IF generate_invoices /\ load_pipeline(lf, fs).clients # <<>>
    THEN generate_invoice_requests(load_pipeline(lf, fs).clients)
    ELSE <<>>

save_invoices(fs, invoices) ==
    IF invoices # <<>>
    THEN [fs EXCEPT !["invoices"] = append_file(@, invoices)]
    ELSE fs

----------------------------------------------------------------------------
(* State *)

\* references/config.json
config ==
    [outreach |-> [daily_limit |-> 1],
     sales |-> [discovery_questions |-> <<"cost">>]]

NoOp ==
    [stage |-> "none", failed |-> FALSE, twice |-> FALSE, loaded |-> 0,
     signals |-> <<>>, draws |-> <<>>, booked |-> <<>>, appended |-> NoBatches,
     summary |-> ZeroSummary, invoicing |-> FALSE, nurtures |-> 0]

\* no discovery call made
NoCall == [meeting |-> [lead_id |-> "none"], picks |-> <<>>]

NoOutcome == [outcome |-> "none", deal |-> <<>>]

\* two run_pipeline.py processes
Runs == {"a", "b"}

\* a process not started: its position and the locals of SalesAgent.run
NoRun ==
    [at |-> "idle", meetings |-> <<>>, deals |-> <<>>, nurtures |-> <<>>,
     existing |-> <<>>]

PipelineInit ==
    /\ leadFiles = << >>
    /\ files = [c \in Collections |-> NoFile]
    /\ reports = 0
    /\ errorLog = <<>>
    /\ pc = "idle"
    /\ calls = <<>>
    /\ returned = <<>>
    /\ raised = {}
    /\ lastOp = NoOp
    /\ nurtured = {}
    /\ runs = [r \in Runs |-> NoRun]
    /\ invocations = 0

Init ==
    /\ item = ScenarioItem
    /\ scored = FALSE
    /\ lead = NoLead
    /\ earlier = <<>>
    /\ call = NoCall
    /\ outcome = NoOutcome
    /\ PipelineInit

\* what the latest stage invocation did: the stage, whether it raised,
\* whether the invocation before it was the same stage, how many records it
\* loaded, the replies drawn and the meetings booked per lead, the batch it
\* appended to each collection, and the summary of the report it wrote
Record(stage, failed, loaded, draws, booked, appended, summary) ==
    lastOp' = [stage |-> stage, failed |-> failed,
               twice |-> (lastOp.stage = stage /\ ~lastOp.failed /\ ~failed),
               loaded |-> loaded, signals |-> <<>>, draws |-> draws,
               booked |-> booked, appended |-> appended, summary |-> summary,
               invoicing |-> FALSE, nurtures |-> 0]

\* nurtures.append({"lead_id": ..., "notes": ...})
Nurture(ids) == nurtured' = nurtured \cup ids

\* a LeadGen invocation that returned: the raw signals it scored
RecordLeadGen(batch) ==
    lastOp' = [NoOp EXCEPT !.stage = "lead_gen",
                           !.twice = (lastOp.stage = "lead_gen" /\ ~lastOp.failed),
                           !.loaded = Len(batch),
                           !.signals = batch]

\* a Sales invocation that processed meetings: how many it loaded, the deals
\* it saved and the length of its nurtures list
RecordSales(loaded, deals, nurtures) ==
    lastOp' = [NoOp EXCEPT !.stage = "sales",
                           !.twice = (lastOp.stage = "sales" /\ ~lastOp.failed),
                           !.loaded = loaded,
                           !.appended = [NoBatches EXCEPT !["deals"] = deals],
                           !.nurtures = Len(nurtures)]

\* an Ops invocation that returned: run(generate_invoices), the clients it
\* loaded, the invoice requests it appended and the summary of its report
RecordOps(generate_invoices, loaded, invoices, summary) ==
    lastOp' = [NoOp EXCEPT !.stage = "ops",
                           !.twice = (lastOp.stage = "ops" /\ ~lastOp.failed),
                           !.loaded = loaded,
                           !.appended = [NoBatches EXCEPT !["invoices"] = invoices],
                           !.summary = summary,
                           !.invoicing = generate_invoices]

----------------------------------------------------------------------------
(* The five stages: <Agent>().run(...) *)

\* a failing stage that empties the collections the stages before it filled
stage_raises_rollback(stage) ==
    /\ leadFiles' = << >>
    /\ files' = [c \in Collections |-> NoFile]
    /\ UNCHANGED reports
    /\ Record(stage, TRUE, 0, <<>>, <<>>, NoBatches, ZeroSummary)
    /\ Nurture({})

\* the stage raises before it has written anything (its constructor cannot
\* read config.json, or a collection file it loads is malformed)
stage_raises(stage) ==
    /\ UNCHANGED storeVars
    /\ Record(stage, TRUE, 0, <<>>, <<>>, NoBatches, ZeroSummary)
    /\ Nurture({})

lead_gen_run(batch, same_second) ==
    /\ leadFiles' = write_leads(leadFiles, same_second, lead_gen_leads(batch))
    /\ UNCHANGED <<files, reports>>
    /\ RecordLeadGen(batch)
    /\ Nurture({})

\* what OutreachAgent.run returns, None taken as the empty list
outreach_result(tier, dry_run, draws) ==
    meetings_booked(outreach_batch(leadFiles, tier, config.outreach.daily_limit),
                    draws, dry_run)

OutreachDraws(tier) ==
    [1..Len(outreach_batch(leadFiles, tier, config.outreach.daily_limit)) -> ReplyDraws]

outreach_run(tier, dry_run, draws) ==
    LET batch    == outreach_batch(leadFiles, tier, config.outreach.daily_limit)
        log      == outreach_log(batch, dry_run)
        meetings == meetings_booked(batch, draws, dry_run)
    IN  IF load_pending_leads(leadFiles, tier) = <<>>
        THEN /\ UNCHANGED storeVars
             /\ Record("outreach", FALSE, 0, <<>>, <<>>, NoBatches, ZeroSummary)
             /\ Nurture({})
        ELSE /\ files' = _save_outreach(files, log, meetings)
             /\ UNCHANGED <<leadFiles, reports>>
             /\ Record("outreach", FALSE,
                       Len(load_pending_leads(leadFiles, tier)), draws,
                       [i \in 1..Len(batch) |-> books_meeting(step_reply(draws[i]))],
                       [NoBatches EXCEPT !["outreach"] = log,
                                         !["meetings"] = meetings],
                       ZeroSummary)
             /\ Nurture({})

SalesPicks ==
    [1..Len(load_file(files["meetings"])) -> AnswerPicks(config.sales.discovery_questions)]

\* what SalesAgent.run returns, None taken as the empty list
sales_result(picks) ==
    sales_deals(load_file(files["meetings"]), config.sales.discovery_questions, picks)

sales_run(picks) ==
    LET meetings == load_file(files["meetings"])
        deals    == sales_result(picks)
    IN  IF meetings = <<>>
        THEN /\ UNCHANGED storeVars
             /\ Record("sales", FALSE, 0, <<>>, <<>>, NoBatches, ZeroSummary)
             /\ Nurture({})
        ELSE /\ files' = clear_meetings(IF deals # <<>> THEN _save_deals(files, deals)
                                        ELSE files)
             /\ UNCHANGED <<leadFiles, reports>>
             /\ RecordSales(Len(meetings), deals,
                            sales_nurtures(meetings, config.sales.discovery_questions,
                                           picks))
             /\ Nurture(nurtured_leads(meetings, config.sales.discovery_questions, picks))

FulfillmentBuilds == [1..Len(load_closed_deals(files)) -> BOOLEAN]

fulfillment_run(builds) ==
    LET deals        == load_closed_deals(files)
        clients      == built_clients(deals, builds)
        case_studies == built_case_studies(deals, builds)
    IN  IF deals = <<>>
        THEN /\ UNCHANGED storeVars
             /\ Record("fulfillment", FALSE, 0, <<>>, <<>>, NoBatches, ZeroSummary)
             /\ Nurture({})
        ELSE /\ files' = _update_deals(
                            _save_case_studies(_save_clients(files, clients),
                                               case_studies),
                            processed_deals(deals, builds))
             /\ UNCHANGED <<leadFiles, reports>>
             /\ Record("fulfillment", FALSE, Len(deals), <<>>, <<>>,
                       [NoBatches EXCEPT !["clients"] = clients,
                                         !["case_studies"] = case_studies],
                       ZeroSummary)
             /\ Nurture({})

ops_run(generate_invoices) ==
    LET report   == generate_report(leadFiles, files)
        invoices == ops_invoices(leadFiles, files, generate_invoices)
    IN  /\ files' = save_invoices(files, invoices)
        /\ reports' = reports + 1
        /\ UNCHANGED leadFiles
        /\ RecordOps(generate_invoices, Len(load_file(files["clients"])),
                     invoices, report.summary)
        /\ Nurture({})

----------------------------------------------------------------------------
(* Stand-alone invocations: main() of each stage script *)

Idle == pc \in {"idle", "done"}

StandAlone ==
    /\ Idle
    /\ invocations < MaxInvocations
    /\ invocations' = invocations + 1
    /\ UNCHANGED <<scoreVars, runVars, runs>>

LeadGenMain ==
    /\ StandAlone
    /\ \E batch \in Batches, same_second \in BOOLEAN :
          lead_gen_run(batch, same_second)

OutreachMain ==
    /\ StandAlone
    /\ \E tier \in Tiers, dry_run \in BOOLEAN :
          \E draws \in OutreachDraws(tier) : outreach_run(tier, dry_run, draws)

SalesMain ==
    /\ StandAlone
    /\ \E picks \in SalesPicks : sales_run(picks)

FulfillmentMain ==
    /\ StandAlone
    /\ \E builds \in FulfillmentBuilds : fulfillment_run(builds)

OpsMain ==
    /\ StandAlone
    /\ \E generate_invoices \in BOOLEAN : ops_run(generate_invoices)

----------------------------------------------------------------------------
(* Orchestrator: run_full_pipeline *)

\* log_error(msg)
log_error(stage, traceback) ==
    errorLog' = Append(errorLog, [stage |-> stage, traceback |-> traceback])

\* the "if not leads" test left out
after_lead_gen_unchecked(leads) == "outreach"

\* if not leads: return
after_lead_gen(leads) == IF leads = <<>> THEN "done" ELSE "outreach"

\* the run returning at once when Outreach handed back nothing
after_outreach_no_ops(meetings) == IF meetings = <<>> THEN "done" ELSE "sales"

\* Outreach tried again when it handed back nothing
after_outreach_retry(meetings) == IF meetings = <<>> THEN "outreach" ELSE "sales"

\* if not meetings: <run ops>; return
after_outreach(meetings) == IF meetings = <<>> THEN "ops_no_meetings" ELSE "sales"

\* the "if not deals" test left out
after_sales_unchecked(deals) == "fulfillment"

\* if not deals: <run ops>; return
after_sales(deals) == IF deals = <<>> THEN "ops_no_deals" ELSE "fulfillment"

Invoke(stage) ==
    /\ calls' = Append(calls, stage)
    /\ UNCHANGED <<scoreVars, invocations, runs>>

\* Step 1, lines 37-48; the first step of a run
PipelineLeadGen ==
    /\ Idle
    /\ invocations < MaxInvocations
    /\ invocations' = invocations + 1
    /\ calls' = <<"lead_gen">>
    /\ UNCHANGED <<scoreVars, runs>>
    /\ \/ /\ stage_raises("lead_gen")
          /\ log_error("Lead Gen", TRUE)
          /\ raised' = {"lead_gen"}
          /\ returned' = <<0>>
          /\ pc' = after_lead_gen(<<>>)
       \/ \E batch \in Batches, same_second \in BOOLEAN :
             /\ lead_gen_run(batch, same_second)
             /\ raised' = {}
             /\ returned' = <<Len(lead_gen_leads(batch))>>
             /\ pc' = after_lead_gen(lead_gen_leads(batch))
             /\ UNCHANGED errorLog

\* Step 2, lines 55-62
PipelineOutreach ==
    /\ pc = "outreach"
    /\ Invoke("outreach")
    /\ \/ /\ stage_raises("outreach")
          /\ log_error("Outreach", FALSE)
          /\ raised' = raised \cup {"outreach"}
          /\ returned' = Append(returned, 0)
          /\ pc' = after_outreach(<<>>)
       \/ \E draws \in OutreachDraws("all") :
             /\ outreach_run("all", TRUE, draws)
             /\ returned' = Append(returned, Len(outreach_result("all", TRUE, draws)))
             /\ pc' = after_outreach(outreach_result("all", TRUE, draws))
             /\ UNCHANGED <<errorLog, raised>>

\* lines 64-76: no meetings, ops alone
PipelineOpsNoMeetings ==
    /\ pc = "ops_no_meetings"
    /\ Invoke("ops")
    /\ returned' = Append(returned, 0)
    /\ pc' = "done"
    /\ \/ /\ stage_raises("ops")
          /\ log_error("Ops", FALSE)
          /\ raised' = raised \cup {"ops"}
       \/ /\ ops_run(FALSE)
          /\ UNCHANGED <<errorLog, raised>>

\* Step 3, lines 83-90
PipelineSales ==
    /\ pc = "sales"
    /\ Invoke("sales")
    /\ \/ /\ stage_raises("sales")
          /\ log_error("Sales", FALSE)
          /\ raised' = raised \cup {"sales"}
          /\ returned' = Append(returned, 0)
          /\ pc' = after_sales(<<>>)
       \/ \E picks \in SalesPicks :
             /\ sales_run(picks)
             /\ returned' = Append(returned, Len(sales_result(picks)))
             /\ pc' = after_sales(sales_result(picks))
             /\ UNCHANGED <<errorLog, raised>>

\* the Ops of the no-deals branch run with generate_invoices=True
PipelineOpsNoDeals_invoicing ==
    /\ pc = "ops_no_deals"
    /\ Invoke("ops")
    /\ returned' = Append(returned, 0)
    /\ pc' = "done"
    /\ ops_run(TRUE)
    /\ UNCHANGED <<errorLog, raised>>

\* lines 92-103: no deals, ops alone
PipelineOpsNoDeals ==
    /\ pc = "ops_no_deals"
    /\ Invoke("ops")
    /\ returned' = Append(returned, 0)
    /\ pc' = "done"
    /\ \/ /\ stage_raises("ops")
          /\ log_error("Ops", FALSE)
          /\ raised' = raised \cup {"ops"}
       \/ /\ ops_run(FALSE)
          /\ UNCHANGED <<errorLog, raised>>

\* Step 4, lines 110-116
PipelineFulfillment ==
    /\ pc = "fulfillment"
    /\ Invoke("fulfillment")
    /\ returned' = Append(returned, 0)
    /\ pc' = "ops_final"
    /\ \/ /\ stage_raises("fulfillment")
          /\ log_error("Fulfillment", FALSE)
          /\ raised' = raised \cup {"fulfillment"}
       \/ \E builds \in FulfillmentBuilds :
             /\ fulfillment_run(builds)
             /\ UNCHANGED <<errorLog, raised>>

\* Step 5, lines 123-128
PipelineOpsFinal ==
    /\ pc = "ops_final"
    /\ Invoke("ops")
    /\ returned' = Append(returned, 0)
    /\ pc' = "done"
    /\ \/ /\ stage_raises("ops")
          /\ log_error("Ops final", FALSE)
          /\ raised' = raised \cup {"ops"}
       \/ /\ ops_run(TRUE)
          /\ UNCHANGED <<errorLog, raised>>

Next ==
    \/ LeadGenMain
    \/ OutreachMain
    \/ SalesMain
    \/ FulfillmentMain
    \/ OpsMain
    \/ PipelineLeadGen
    \/ PipelineOutreach
    \/ PipelineOpsNoMeetings
    \/ PipelineSales
    \/ PipelineOpsNoDeals
    \/ PipelineFulfillment
    \/ PipelineOpsFinal

Spec == Init /\ [][Next]_vars

\* run_pipeline.py alone, run after run
NextPipeline ==
    \/ PipelineLeadGen
    \/ PipelineOutreach
    \/ PipelineOpsNoMeetings
    \/ PipelineSales
    \/ PipelineOpsNoDeals
    \/ PipelineFulfillment
    \/ PipelineOpsFinal

SpecPipeline == Init /\ [][NextPipeline]_vars

----------------------------------------------------------------------------
(* The scoring engine applied to one signal record *)

InitScore ==
    /\ item \in SignalRecords(MaxWords)
    /\ scored = FALSE
    /\ lead = NoLead
    /\ earlier = <<>>
    /\ call = NoCall
    /\ outcome = NoOutcome
    /\ PipelineInit

\* "discovered_at": datetime.now().isoformat(), the n-th call made at time n
discovered(l, now) ==
    IF l.none THEN l ELSE [discovered_at |-> now] @@ l

ScoreSignal ==
    /\ ~scored
    /\ scored' = TRUE
    /\ lead' = discovered(calculate_score(item), 1)
    /\ UNCHANGED <<item, earlier, call, outcome, storeVars, runVars, histVars,
                   invocations, runs>>

\* calculate_score called once more on the same record
ScoreAgain ==
    /\ scored
    /\ earlier = <<>>
    /\ earlier' = <<lead>>
    /\ lead' = discovered(calculate_score(item), 2)
    /\ UNCHANGED <<item, scored, call, outcome, storeVars, runVars, histVars,
                   invocations, runs>>

NextScore == ScoreSignal

SpecScore == InitScore /\ [][NextScore]_vars

----------------------------------------------------------------------------
(* The scoring engine applied twice to one signal record *)

InitScoreAgain ==
    /\ item \in SignalRecords(MaxWordsAgain)
    /\ scored = FALSE
    /\ lead = NoLead
    /\ earlier = <<>>
    /\ call = NoCall
    /\ outcome = NoOutcome
    /\ PipelineInit

NextScoreAgain == ScoreSignal \/ ScoreAgain

SpecScoreAgain == InitScoreAgain /\ [][NextScoreAgain]_vars

----------------------------------------------------------------------------
(* One discovery call: simulate_discovery_call applied to a meeting *)

\* the five questions _generate_answer has answers for, in the order of its table
AllQuestions == <<"manual_work", "hours_per_week", "not_done", "tried_before", "cost">>

\* company_size as the collectors report it
CallSizes == SizeChoices \cup {"100-200", "200+"}

\* the scenario signal posted by a founder or by a manager, of a company of
\* each size
CallLeads ==
    {l \in {calculate_score([ScenarioItem EXCEPT !.bio = b, !.company_size = s]) :
                b \in {{"founder"}, {"manager"}}, s \in CallSizes} : ~l.none}

InitCall ==
    /\ item = ScenarioItem
    /\ scored = FALSE
    /\ lead = NoLead
    /\ earlier = <<>>
    /\ call \in {[meeting |-> [lead_id |-> l.id, lead |-> l, reply |-> "positive"],
                   picks |-> p] : l \in CallLeads, p \in AnswerPicks(AllQuestions)}
    /\ outcome = NoOutcome
    /\ PipelineInit

DiscoveryCall ==
    /\ outcome = NoOutcome
    /\ outcome' = simulate_discovery_call(call.meeting, AllQuestions, call.picks)
    /\ UNCHANGED <<item, scored, lead, earlier, call, storeVars, runVars, histVars,
                   invocations, runs>>

NextCall == DiscoveryCall

SpecCall == InitCall /\ [][NextCall]_vars

----------------------------------------------------------------------------
(* run_pipeline.py started twice side by side: nothing in run_full_pipeline *)
(* or in the agents takes a lock, so the steps of the two processes         *)
(* interleave; SalesAgent.run is taken file operation by file operation     *)

\* the batches the collectors hand to either process: nothing, or the one
\* qualifying signal
SharedBatches == {<<>>, <<ScenarioItem>>}

Goto(r, at) == runs' = [runs EXCEPT ![r].at = at]

ProcessFrame == UNCHANGED <<scoreVars, pc, calls, returned, raised, invocations>>

\* Step 1, lines 37-48
RunLeadGen(r) ==
    /\ runs[r].at = "idle"
    /\ ProcessFrame
    /\ \/ /\ stage_raises("lead_gen")
          /\ log_error("Lead Gen", TRUE)
          /\ Goto(r, after_lead_gen(<<>>))
       \/ \E batch \in SharedBatches, same_second \in BOOLEAN :
             /\ lead_gen_run(batch, same_second)
             /\ Goto(r, after_lead_gen(lead_gen_leads(batch)))
             /\ UNCHANGED errorLog

\* Step 2, lines 55-62
RunOutreach(r) ==
    /\ runs[r].at = "outreach"
    /\ ProcessFrame
    /\ \/ /\ stage_raises("outreach")
          /\ log_error("Outreach", FALSE)
          /\ Goto(r, after_outreach(<<>>))
       \/ \E draws \in OutreachDraws("all") :
             /\ outreach_run("all", TRUE, draws)
             /\ Goto(r, after_outreach(outreach_result("all", TRUE, draws)))
             /\ UNCHANGED errorLog

\* Step 3, lines 83-90; sales.py 189-209: load_meetings and the calls
RunSalesLoad(r) ==
    /\ runs[r].at = "sales"
    /\ ProcessFrame
    /\ \/ /\ stage_raises("sales")
          /\ log_error("Sales", FALSE)
          /\ Goto(r, after_sales(<<>>))
       \/ /\ load_file(files["meetings"]) = <<>>
          /\ sales_run(<<>>)
          /\ Goto(r, after_sales(<<>>))
          /\ UNCHANGED errorLog
       \/ \E picks \in SalesPicks :
             /\ load_file(files["meetings"]) # <<>>
             /\ runs' = [runs EXCEPT ![r] =
                            [at       |-> IF sales_result(picks) # <<>>
                                          THEN "sales_read" ELSE "sales_unlink",
                             meetings |-> load_file(files["meetings"]),
                             deals    |-> sales_result(picks),
                             nurtures |-> sales_nurtures(load_file(files["meetings"]),
                                                         config.sales.discovery_questions,
                                                         picks),
                             existing |-> <<>>]]
             /\ Nurture(nurtured_leads(load_file(files["meetings"]),
                                       config.sales.discovery_questions, picks))
             /\ UNCHANGED <<storeVars, errorLog, lastOp>>

\* sales.py 230-236, _save_deals: the deals file is read
RunSalesRead(r) ==
    /\ runs[r].at = "sales_read"
    /\ ProcessFrame
    /\ runs' = [runs EXCEPT ![r].at = "sales_write",
                            ![r].existing = load_file(files["deals"])]
    /\ UNCHANGED <<storeVars, errorLog, histVars>>

\* sales.py 237-239, _save_deals: existing.extend(deals); json.dump(existing, f)
RunSalesWrite(r) ==
    /\ runs[r].at = "sales_write"
    /\ ProcessFrame
    /\ files' = [files EXCEPT !["deals"] =
                    [exists |-> TRUE, items |-> runs[r].existing \o runs[r].deals]]
    /\ Goto(r, "sales_unlink")
    /\ UNCHANGED <<leadFiles, reports, errorLog, histVars>>

\* sales.py 221-226: the meetings file is removed and run returns the deals
RunSalesUnlink(r) ==
    /\ runs[r].at = "sales_unlink"
    /\ ProcessFrame
    /\ files' = clear_meetings(files)
    /\ Goto(r, after_sales(runs[r].deals))
    /\ RecordSales(Len(runs[r].meetings), runs[r].deals, runs[r].nurtures)
    /\ Nurture({})
    /\ UNCHANGED <<leadFiles, reports, errorLog>>

\* Step 4, lines 110-116
RunFulfillment(r) ==
    /\ runs[r].at = "fulfillment"
    /\ ProcessFrame
    /\ Goto(r, "ops_final")
    /\ \/ /\ stage_raises("fulfillment")
          /\ log_error("Fulfillment", FALSE)
       \/ \E builds \in FulfillmentBuilds :
             /\ fulfillment_run(builds)
             /\ UNCHANGED errorLog

\* lines 64-76, 92-103 and Step 5, lines 123-128
RunOps(r) ==
    /\ runs[r].at \in {"ops_no_meetings", "ops_no_deals", "ops_final"}
    /\ ProcessFrame
    /\ Goto(r, "done")
    /\ \/ /\ stage_raises("ops")
          /\ log_error(IF runs[r].at = "ops_final" THEN "Ops final" ELSE "Ops", FALSE)
       \/ /\ ops_run(runs[r].at = "ops_final")
          /\ UNCHANGED errorLog

NextConcurrent ==
    \/ \E r \in Runs : RunLeadGen(r)
    \/ \E r \in Runs : RunOutreach(r)
    \/ \E r \in Runs : RunSalesLoad(r)
    \/ \E r \in Runs : RunSalesRead(r)
    \/ \E r \in Runs : RunSalesWrite(r)
    \/ \E r \in Runs : RunSalesUnlink(r)
    \/ \E r \in Runs : RunFulfillment(r)
    \/ \E r \in Runs : RunOps(r)

SpecConcurrent == Init /\ [][NextConcurrent]_vars

----------------------------------------------------------------------------
(* Properties of a pipeline run and of the stages (Spec) *)

Times(stage) == Cardinality({i \in 1..Len(calls) : calls[i] = stage})

YieldedNothing(stage) ==
    \E i \in 1..Len(calls) : calls[i] = stage /\ returned[i] = 0

\* C1: in a pipeline run, once Outreach has yielded no meetings, Sales and
\* Fulfillment are never invoked and Ops is invoked exactly once before the run
\* halts; once Sales has yielded no deals, Fulfillment is never invoked and
\* Ops is invoked exactly once before the run halts.
C1_ShortCircuit ==
    /\ YieldedNothing("outreach") =>
          /\ Times("sales") = 0
          /\ Times("fulfillment") = 0
          /\ Times("ops") <= 1
          /\ (pc = "done" <=> Times("ops") = 1)
    /\ YieldedNothing("sales") =>
          /\ Times("fulfillment") = 0
          /\ Times("ops") <= 1
          /\ (pc = "done" <=> Times("ops") = 1)

\* a run has halted after a Sales stage that nurtured every lead
C1_Witness ==
    /\ pc = "done"
    /\ calls = <<"lead_gen", "outreach", "sales", "ops">>
    /\ raised = {}

\* C2, as stated: whichever stage raised, the run goes on to run Ops alone,
\* once, and then halts.
C2_FailureRunsOpsAlone ==
    pc = "done" =>
        \A s \in raised \ {"ops"} :
            \E i \in 1..Len(calls) :
                /\ calls[i] = s
                /\ SubSeq(calls, i + 1, Len(calls)) = <<"ops">>

\* C2, amended: a stage that raised is taken to have returned nothing and the
\* run ends on the branch of that stage: after LeadGen no further stage (no
\* Ops), after Outreach or Sales a single Ops invocation, after Fulfillment the
\* final Ops invocation, and after Ops nothing more.
C2_FailureBranches ==
    /\ \A i \in 1..Len(calls) : calls[i] \in raised => returned[i] = 0
    /\ pc = "done" =>
          /\ "lead_gen" \in raised => calls = <<"lead_gen">>
          /\ "outreach" \in raised => calls = <<"lead_gen", "outreach", "ops">>
          /\ "sales" \in raised =>
                calls = <<"lead_gen", "outreach", "sales", "ops">>
          /\ "fulfillment" \in raised =>
                calls = <<"lead_gen", "outreach", "sales", "fulfillment", "ops">>
          /\ "ops" \in raised => calls[Len(calls)] = "ops"

\* a run has halted after its Fulfillment stage raised
C2_Witness == pc = "done" /\ "fulfillment" \in raised

\* C3: after a Sales invocation has returned, the meeting collection is empty,
\* however many meetings were stored before it.
C3_MeetingsDrained ==
    (lastOp.stage = "sales" /\ ~lastOp.failed) =>
        load_file(files["meetings"]) = <<>>

\* a Sales invocation that loaded several meetings has returned
C3_Witness == lastOp.stage = "sales" /\ ~lastOp.failed /\ lastOp.loaded >= 2

\* C4: a stage that appends a non-empty batch to a single-file collection
\* leaves it loading as the contents loaded before followed by the batch.
C4_AppendThenLoad ==
    [][\A c \in Collections :
          lastOp'.appended[c] # <<>> =>
              load_file(files'[c]) = load_file(files[c]) \o lastOp'.appended[c]]_vars

\* a batch has been appended to an outreach log that already held records
C4_Witness ==
    /\ lastOp.appended["outreach"] # <<>>
    /\ Len(load_file(files["outreach"])) > Len(lastOp.appended["outreach"])

\* C9, as stated: Outreach books a meeting for a lead only when the reply drawn
\* for that lead is positive or curious.
C9_MeetingOnlyOnReply ==
    (lastOp.stage = "outreach" /\ ~lastOp.failed) =>
        \A i \in 1..Len(lastOp.booked) :
            lastOp.booked[i] => lastOp.draws[i] \in {"positive", "curious"}

\* C10: an Ops run that directly follows an Ops run reports the same summary,
\* with or without invoice generation in either run.
C10_OpsTwiceSameSummary ==
    [][(/\ lastOp.stage = "ops" /\ ~lastOp.failed
        /\ lastOp'.stage = "ops" /\ ~lastOp'.failed)
          => lastOp'.summary = lastOp.summary]_vars

\* Ops has run twice in a row over a store with an active client and invoices
C10_Witness ==
    /\ lastOp.stage = "ops" /\ lastOp.twice
    /\ lastOp.summary.active_clients > 0
    /\ load_file(files["invoices"]) # <<>>

\* the place of a stage in the order LeadGen, Outreach, Sales, Fulfillment, Ops
StageRank(stage) ==
    CASE stage = "lead_gen"    -> 1
      [] stage = "outreach"    -> 2
      [] stage = "sales"       -> 3
      [] stage = "fulfillment" -> 4
      [] stage = "ops"         -> 5

\* C13: the stages a pipeline run has invoked so far stand in the order
\* LeadGen, Outreach, Sales, Fulfillment, Ops, each at most once, a stage
\* that raised included; the run starts with LeadGen.
C13_FixedOrderNoRetry ==
    /\ \A i, j \in 1..Len(calls) :
          i < j => StageRank(calls[i]) < StageRank(calls[j])
    /\ calls # <<>> => calls[1] = "lead_gen"
    /\ \A s \in raised : Times(s) = 1

\* a run has gone through all five stages after one of them raised
C13_Witness ==
    /\ calls = <<"lead_gen", "outreach", "sales", "fulfillment", "ops">>
    /\ raised # {}

\* a deal without regard to the fields Fulfillment sets
Unfulfilled(d) == [d EXCEPT !.fulfillment_status = "none"]

\* C14, as stated: a Fulfillment run removes no deal: every deal stored before
\* the run, one completed by an earlier run included, is stored after it,
\* changed at most in its fulfillment fields.
C14_DealsKept ==
    [][(lastOp'.stage = "fulfillment" /\ ~lastOp'.failed) =>
          LET before == load_file(files["deals"])
              after  == load_file(files'["deals"])
          IN  /\ Len(after) >= Len(before)
              /\ \A i \in 1..Len(before) : \E j \in 1..Len(after) :
                    Unfulfilled(after[j]) = Unfulfilled(before[i])]_vars

\* the leads of the lead collection with the given id
StoredLeads(lf, id) == SelectSeq(load_leads(lf), LAMBDA l : l.id = id)

\* C15, as stated: after an Outreach run in live mode every lead it processed
\* is stored with outreach status active, so that no later run selects it as
\* pending; after a dry run the processed leads are stored as pending.
C15_LiveRunMarksLeadsActive ==
    (lastOp.stage = "outreach" /\ ~lastOp.failed) =>
        \A i \in 1..Len(lastOp.appended["outreach"]) :
            LET entry  == lastOp.appended["outreach"][i]
                stored == StoredLeads(leadFiles, entry.lead_id)
            IN  \A k \in 1..Len(stored) :
                    stored[k].outreach.status =
                        IF entry.status = "active" THEN "active" ELSE "pending"

\* C16, as stated: a deal whose build failed (needs_review) is terminal: a
\* later Fulfillment run leaves it stored as it is and creates no client and
\* no case study for it.
C16_NeedsReviewTerminal ==
    [][(lastOp'.stage = "fulfillment" /\ ~lastOp'.failed) =>
          LET before == load_file(files["deals"])
              after  == load_file(files'["deals"])
          IN  \A i \in 1..Len(before) :
                before[i].fulfillment_status = "needs_review" =>
                    /\ \E j \in 1..Len(after) : after[j] = before[i]
                    /\ \A k \in 1..Len(lastOp'.appended["clients"]) :
                          lastOp'.appended["clients"][k].deal_id # before[i].id
                    /\ \A k \in 1..Len(lastOp'.appended["case_studies"]) :
                          lastOp'.appended["case_studies"][k].client
                              # before[i].lead_id]_vars

\* C17, as stated: a lead that a Sales run has nurtured gets no meeting and
\* no deal in any later stage invocation.
C17_NurtureTerminal ==
    [][/\ \A k \in 1..Len(lastOp'.appended["meetings"]) :
             lastOp'.appended["meetings"][k].lead_id \notin nurtured
       /\ \A k \in 1..Len(lastOp'.appended["deals"]) :
             lastOp'.appended["deals"][k].lead_id \notin nurtured]_vars

\* the processes that have started their run and not ended it
Running == {r \in Runs : runs[r].at \notin {"idle", "done"}}

\* C18, as stated: one pipeline run at a time: no two runs are under way
\* together, so the deals a run's Sales stage saves are added to what is
\* stored at that moment, and the meetings it drains are the ones it loaded
\* and processed.
C18_OneRunAtATime ==
    [][/\ Cardinality(Running') <= 1
       /\ \A r \in Runs :
             (runs[r].at = "sales_write" /\ runs'[r].at = "sales_unlink") =>
                 load_file(files'["deals"])
                     = load_file(files["deals"]) \o runs[r].deals
       /\ \A r \in Runs :
             (runs[r].at = "sales_unlink" /\ runs'[r].at # "sales_unlink") =>
                 load_file(files["meetings"]) = runs[r].meetings]_vars

\* the prefixes run_full_pipeline gives the log lines of a stage
LogLabels(stage) ==
    CASE stage = "lead_gen"    -> {"Lead Gen"}
      [] stage = "outreach"    -> {"Outreach"}
      [] stage = "sales"       -> {"Sales"}
      [] stage = "fulfillment" -> {"Fulfillment"}
      [] stage = "ops"         -> {"Ops", "Ops final"}

\* C19, as stated: for each of the five stages, an exception caught at the
\* stage boundary is in the error log with its message and its traceback.
C19_FailuresLoggedInFull ==
    \A s \in raised :
        \E i \in 1..Len(errorLog) :
            errorLog[i].stage \in LogLabels(s) /\ errorLog[i].traceback

\* C20: from the step in which a stage of a pipeline run raises until the run
\* returns, the leads files and the outreach log, meetings and deals
\* collections stay as the earlier stages of the run left them: neither the
\* failing stage nor the Ops stage that follows it removes or alters a record.
C20_FailureKeepsEarlierWrites ==
    [][(~Idle /\ raised' # {}) =>
          /\ leadFiles' = leadFiles
          /\ \A c \in {"outreach", "meetings", "deals"} :
                 files'[c] = files[c]]_vars

\* a run has returned in which Fulfillment raised after LeadGen, Outreach and
\* Sales had written their records
C20_Witness ==
    /\ pc = "done"
    /\ raised = {"fulfillment"}
    /\ leadFiles # << >>
    /\ load_file(files["outreach"]) # <<>>
    /\ load_file(files["deals"]) # <<>>

\* C21: an Ops run with invoice generation appends to the Invoice collection
\* one request per client whose status is active, in the order of the Client
\* collection, with status pending_manual_send and total_due equal to the
\* client's mrr, and none for another client; requests made by earlier runs
\* are neither looked at nor replaced, so every such run adds one more
\* request per active client.
C21_InvoicePerActiveClient ==
    [][(lastOp'.stage = "ops" /\ ~lastOp'.failed /\ lastOp'.invoicing) =>
          LET active   == SelectSeq(load_file(files["clients"]),
                                    LAMBDA c : c.status = "active")
              invoices == lastOp'.appended["invoices"]
          IN  /\ Len(invoices) = Len(active)
              /\ \A i \in 1..Len(invoices) :
                     /\ invoices[i].id = <<"inv">> \o active[i].id
                     /\ invoices[i].status = "pending_manual_send"
                     /\ invoices[i].total_due = active[i].mrr
              /\ load_file(files'["invoices"])
                     = load_file(files["invoices"]) \o invoices]_vars

\* two Ops runs with invoice generation in a row over one active client: the
\* Invoice collection holds two requests for that client
C21_Witness ==
    /\ lastOp.stage = "ops" /\ lastOp.invoicing /\ lastOp.twice
    /\ Len(load_file(files["clients"])) = 1
    /\ Len(load_file(files["invoices"])) = 2
    /\ load_file(files["invoices"])[1].id = load_file(files["invoices"])[2].id

\* C22: a Sales run that processes meetings ends every meeting in exactly
\* one outcome: a Deal with status closed_won is saved for the meetings whose
\* qualification score is at least 50 and for no other, the lead of every
\* other meeting is nurtured, and the deals saved plus the nurtures add up to
\* the meetings loaded.
C22_CloseOrNurture ==
    [][(lastOp'.stage = "sales" /\ ~lastOp'.failed /\ lastOp'.loaded > 0) =>
          LET meetings == load_file(files["meetings"])
              deals    == lastOp'.appended["deals"]
          IN  /\ lastOp'.loaded = Len(meetings)
              /\ Len(deals) + lastOp'.nurtures = Len(meetings)
              /\ \A k \in 1..Len(deals) :
                     deals[k].status = "closed_won" /\ deals[k].qualification >= 50
              /\ \E picks \in SalesPicks :
                     LET score(i) ==
                             _qualify_opportunity(
                                 meetings[i].lead,
                                 discovery_notes(config.sales.discovery_questions,
                                                 picks[i])).score
                         closed == {i \in 1..Len(meetings) : score(i) >= 50}
                     IN  /\ Len(deals) = Cardinality(closed)
                         /\ \A i \in closed :
                                \E k \in 1..Len(deals) :
                                    /\ deals[k].lead_id = meetings[i].lead.id
                                    /\ deals[k].qualification = score(i)
                         /\ nurtured' = nurtured \cup
                                {meetings[i].lead.id :
                                    i \in (1..Len(meetings)) \ closed}]_vars

\* a Sales run over two meetings closed one deal and nurtured one lead
C22_Witness ==
    /\ lastOp.stage = "sales" /\ ~lastOp.failed
    /\ lastOp.loaded = 2
    /\ Len(lastOp.appended["deals"]) = 1
    /\ lastOp.nurtures = 1

\* the deals among the given ones whose build succeeded
RECURSIVE Succeeded(_, _)
Succeeded(deals, builds) ==
    IF deals = <<>> THEN <<>>
    ELSE (IF Head(builds) THEN <<Head(deals)>> ELSE <<>>)
         \o Succeeded(Tail(deals), Tail(builds))

\* C23: in a Fulfillment run every deal it processes is built once; a deal
\* whose build succeeds is written back as completed and adds one Client
\* (status active, mrr the deal value, deal_id the deal id) and one CaseStudy,
\* a deal whose build fails is written back as needs_review and adds
\* neither; and after every step the Client and CaseStudy collections hold
\* the same number of records.
C23_ClientAndCaseStudyPerBuild ==
    [][/\ Len(load_file(files'["clients"])) = Len(load_file(files'["case_studies"]))
       /\ (lastOp'.stage = "fulfillment" /\ ~lastOp'.failed /\ lastOp'.loaded > 0) =>
             LET deals        == SelectSeq(load_file(files["deals"]),
                                           LAMBDA d : d.fulfillment_status # "completed")
                 clients      == lastOp'.appended["clients"]
                 case_studies == lastOp'.appended["case_studies"]
                 after        == load_file(files'["deals"])
             IN  /\ lastOp'.loaded = Len(deals)
                 /\ load_file(files'["clients"])
                        = load_file(files["clients"]) \o clients
                 /\ load_file(files'["case_studies"])
                        = load_file(files["case_studies"]) \o case_studies
                 /\ \E builds \in [1..Len(deals) -> BOOLEAN] :
                        LET done == Succeeded(deals, builds)
                        IN  /\ \A i \in 1..Len(deals) :
                                   \E j \in 1..Len(after) :
                                       after[j] = [deals[i] EXCEPT
                                           !.fulfillment_status =
                                               IF builds[i] THEN "completed"
                                               ELSE "needs_review"]
                            /\ Len(clients) = Len(done)
                            /\ Len(case_studies) = Len(done)
                            /\ \A k \in 1..Len(done) :
                                   /\ clients[k].status = "active"
                                   /\ clients[k].mrr = done[k].value
                                   /\ clients[k].deal_id = done[k].id
                                   /\ case_studies[k].id = <<"case">> \o done[k].id]_vars

\* a Fulfillment run over two deals built one and failed on the other
C23_Witness ==
    /\ lastOp.stage = "fulfillment" /\ ~lastOp.failed
    /\ lastOp.loaded = 2
    /\ Len(lastOp.appended["clients"]) = 1
    /\ Len(lastOp.appended["case_studies"]) = 1
    /\ \E i \in 1..Len(load_file(files["deals"])) :
           load_file(files["deals"])[i].fulfillment_status = "needs_review"

\* C24: an Outreach run processes the first min(pending, daily_limit) of the
\* pending leads it selected: it appends one log entry for each of them, in
\* that order, and no other, and it appends at most one meeting for each of
\* them and none for another lead.
C24_DailyLimit ==
    [][(lastOp'.stage = "outreach" /\ ~lastOp'.failed) =>
          LET log      == lastOp'.appended["outreach"]
              meetings == lastOp'.appended["meetings"]
          IN  /\ Len(log) = Min(lastOp'.loaded, config.outreach.daily_limit)
              /\ Len(meetings) <= Len(log)
              /\ \A k \in 1..Len(meetings) :
                     \E i \in 1..Len(log) : log[i].lead_id = meetings[k].lead_id
              /\ \E tier \in Tiers :
                     LET pending ==
                             SelectSeq(load_leads(leadFiles),
                                       LAMBDA l : /\ l.outreach.status = "pending"
                                                  /\ tier \in {"all", l.score.tier})
                     IN  /\ lastOp'.loaded = Len(pending)
                         /\ \A i \in 1..Len(log) : log[i].lead_id = pending[i].id
              /\ load_file(files'["outreach"]) = load_file(files["outreach"]) \o log
              /\ load_file(files'["meetings"])
                     = load_file(files["meetings"]) \o meetings]_vars

\* an Outreach run found more pending leads than the daily limit and stopped
\* at the limit
C24_Witness ==
    /\ lastOp.stage = "outreach" /\ ~lastOp.failed
    /\ lastOp.loaded > config.outreach.daily_limit
    /\ Len(lastOp.appended["outreach"]) = config.outreach.daily_limit
    /\ Len(lastOp.appended["meetings"]) = config.outreach.daily_limit

\* C25: a deal that a discovery call closes has status closed_won and one of
\* the pairs (starter, 500), (growth, 2000), (enterprise, 5000); it is
\* enterprise exactly when the lead's company size is 100-200 or 200+,
\* whatever was answered; for another size it is growth exactly when an
\* answer names the hire ("hiring a 3rd person", "60k", the first answer on
\* cost) or the workload ("50+ hours", "full-time", the third answer on
\* hours per week), and starter otherwise.
C25_DealTierAndValue ==
    outcome.deal # <<>> =>
        LET deal == outcome.deal[1]
            size == call.meeting.lead.context.company_size
            budget_phrase == call.picks[5] = 1 \/ call.picks[2] = 3
        IN  /\ deal.status = "closed_won"
            /\ <<deal.tier, deal.value>> \in
                   {<<"starter", 500>>, <<"growth", 2000>>, <<"enterprise", 5000>>}
            /\ deal.tier = "enterprise" <=> size \in {"100-200", "200+"}
            /\ size \notin {"100-200", "200+"} =>
                   (deal.tier = "growth" <=> budget_phrase)

\* a deal closed as enterprise for a lead whose answers name the hire
C25_Witness ==
    /\ outcome.deal # <<>>
    /\ outcome.deal[1].tier = "enterprise"
    /\ call.picks[5] = 1

\* C27, as stated: a LeadGen run adds one file to the Lead collection, holding
\* its leads in non-increasing order of total, and leaves every file written
\* by an earlier run as it was, so that the collection then loads as what it
\* loaded before followed by the leads of the run.
C27_LeadFilesKept ==
    [][(lastOp'.stage = "lead_gen" /\ ~lastOp'.failed) =>
          /\ Len(leadFiles') = Len(leadFiles) + 1
          /\ \A i \in 1..Len(leadFiles) : leadFiles'[i] = leadFiles[i]
          /\ LET new == leadFiles'[Len(leadFiles')]
             IN  /\ \A i \in 1..Len(new) : \A j \in i..Len(new) :
                        new[i].score.total >= new[j].score.total
                 /\ load_leads(leadFiles') = load_leads(leadFiles) \o new]_vars

\* C28, as stated: whenever no pipeline run is under way, the deals of the
\* Deal collection differ pairwise in their id and in their lead_id.
C28_OneDealPerLead ==
    Idle =>
        LET deals == load_file(files["deals"])
        IN  \A i \in 1..Len(deals) : \A j \in 1..Len(deals) :
               i # j => /\ deals[i].id # deals[j].id
                        /\ deals[i].lead_id # deals[j].lead_id

\* C29: a pipeline run invokes Ops at most once; a run in which LeadGen
\* returned at least one lead has invoked Ops exactly once when it returns,
\* and a run in which LeadGen returned no lead or raised returns after
\* LeadGen, with no other stage invoked and no report written.
C29_OpsOnceIffLeads ==
    [][/\ Cardinality({i \in 1..Len(calls') : calls'[i] = "ops"}) <= 1
       /\ pc' = "done" =>
             IF returned'[1] > 0
             THEN /\ Cardinality({i \in 1..Len(calls') : calls'[i] = "ops"}) = 1
                  /\ calls'[Len(calls')] = "ops"
             ELSE /\ calls' = <<"lead_gen">>
                  /\ lastOp'.stage = "lead_gen"
                  /\ reports' = reports]_vars

\* a run that found no lead has returned after LeadGen, the report of the run
\* before it being the only one written
C29_Witness ==
    /\ pc = "done"
    /\ calls = <<"lead_gen">>
    /\ returned = <<0>>
    /\ raised = {}
    /\ reports = 1

\* C30: in a pipeline run the Invoice collection changes only in the final
\* Ops step, which is reached only after Sales returned at least one deal;
\* the Ops steps of the no-meetings and no-deals branches run without invoice
\* generation and leave the leads files and every collection, the Invoice
\* collection included, as they were.
C30_InvoicesOnlyAfterDeals ==
    [][/\ files'["invoices"] # files["invoices"] =>
             /\ pc = "ops_final"
             /\ \E i \in 1..Len(calls) : calls[i] = "sales" /\ returned[i] > 0
       /\ pc \in {"ops_no_meetings", "ops_no_deals"} =>
             /\ lastOp'.stage = "ops"
             /\ ~lastOp'.invoicing
             /\ leadFiles' = leadFiles
             /\ files' = files]_vars

\* a run has returned on the no-deals branch over a store that holds a client
\* billed by the run before it: its Ops wrote a report and no invoice
C30_Witness ==
    /\ pc = "done"
    /\ calls = <<"lead_gen", "outreach", "sales", "ops">>
    /\ lastOp.stage = "ops" /\ ~lastOp.failed
    /\ lastOp.summary.active_clients > 0
    /\ reports = 2
    /\ Len(load_file(files["invoices"])) = 1

\* no pain detector fires on the record: no hour count, no recurring phrase,
\* no keyword, no emotion word, no hiring or headcount mention
NoPainSignal(it) ==
    /\ it.hours = NoHours
    /\ \A w \in FullText(it) :
          Substrings(w) \cap
             {"every day", "every morning", "every week", "each day",
              "each morning", "each week", "data entry", "manual", "manually",
              "spreadsheet", "excel", "copy", "copying", "paste", "pasting",
              "reconciliation", "reconciling", "inventory", "hiring", "hire",
              "killing", "insane", "brutal", "hell", "nightmare",
              "headcount"} = {}

\* the file the latest LeadGen run wrote
SavedLeads(lf) == lf[Len(lf)]

\* C12: a raw signal on which no pain detector fires, one without any text
\* included, scores pain 0 and calculate_score returns None for it; the
\* LeadGen run that meets it does not fail, writes nothing to the error log
\* and saves no lead for it.
C12_QuietSignalDropped ==
    [][(lastOp'.stage = "lead_gen" /\ ~lastOp'.failed) =>
          \A i \in 1..Len(lastOp'.signals) :
              NoPainSignal(lastOp'.signals[i]) =>
                  /\ score_pain(FullText(lastOp'.signals[i]), lastOp'.signals[i].hours) = 0
                  /\ calculate_score(lastOp'.signals[i]) = NoLead
                  /\ errorLog' = errorLog
                  /\ \A k \in 1..Len(SavedLeads(leadFiles')) :
                        SavedLeads(leadFiles')[k].id # <<"nexus", lastOp'.signals[i].id>>]_vars

\* a LeadGen run has met a record without text and saved another record's lead
C12_Witness ==
    /\ lastOp.stage = "lead_gen" /\ ~lastOp.failed
    /\ \E i \in 1..Len(lastOp.signals) :
          lastOp.signals[i] = BlankItem /\ NoPainSignal(lastOp.signals[i])
    /\ leadFiles # <<>> /\ SavedLeads(leadFiles) # <<>>

----------------------------------------------------------------------------
(* Properties of the scoring engine (SpecScore) *)

\* C5: a returned lead has its total in 0..100 and is hot exactly from 85,
\* warm exactly from 75 to 84, and cool exactly from the minimum score to 74.
C5_TotalAndTier ==
    (scored /\ ~lead.none) =>
        /\ lead.score.total \in 0..100
        /\ lead.score.tier = "hot" <=> lead.score.total >= 85
        /\ lead.score.tier = "warm" <=>
              (75 <= lead.score.total /\ lead.score.total < 85)
        /\ lead.score.tier = "cool" <=>
              (min_score <= lead.score.total /\ lead.score.total < 75)

\* a lead on the lower edge of a tier has been returned
C5_Witness == scored /\ ~lead.none /\ lead.score.total \in {75, 85}

\* the weighted sum of the three scores of item, in units of 1/100
Weighted(it) ==
    score_pain(FullText(it), it.hours) * 45 + score_authority(it).score * 30
        + budget_proxy(it) * 25

\* C6: calculate_score returns None exactly when the pain score is below 40 or
\* the composite total is below 50, and a lead with status pending otherwise.
C6_NoneExactlyBelowThresholds ==
    scored =>
        /\ lead.none <=>
              \/ score_pain(FullText(item), item.hours) < 40
              \/ Weighted(item) * multipliers(detect_industry(item)) < 50 * 10000
        /\ ~lead.none => lead.outreach.status = "pending"

\* a signal past the pain pre-filter has been rejected on its total
C6_Witness ==
    scored /\ lead.none /\ score_pain(FullText(item), item.hours) >= 40

\* the multiplier of each industry, in hundredths
StatedMultiplier(industry) ==
    IF industry \in {"saas", "ecommerce"} THEN 100
    ELSE IF industry \in {"agency", "fintech"} THEN 95
    ELSE IF industry = "consulting" THEN 90
    ELSE 80

\* the weighted sum of a returned lead times its multiplier, in units of 1/10000
Product(l) ==
    (l.pain.score * 45 + l.authority.score * 30 + l.context.budget_score * 25)
        * StatedMultiplier(l.context.industry)

\* C7, as stated: the total is the weighted sum times the multiplier, rounded
\* to the nearest integer.
C7_TotalIsRounded ==
    (scored /\ ~lead.none) =>
        /\ lead.score.total * 10000 - 5000 <= Product(lead)
        /\ Product(lead) <= lead.score.total * 10000 + 5000

\* C7, amended: the total is the weighted sum times the multiplier with the
\* fraction dropped.
C7_TotalIsTruncated ==
    (scored /\ ~lead.none) =>
        /\ lead.score.total * 10000 <= Product(lead)
        /\ Product(lead) < (lead.score.total + 1) * 10000

\* a lead whose product has a fraction above one half has been returned
C7_Witness == scored /\ ~lead.none /\ Product(lead) % 10000 > 5000

\* C8: the founder's signal (20+ hours, every week, manual reconciling of
\* inventory, hiring, no emotion word, 6000 followers) scores pain >= 95,
\* decision_maker, ecommerce, total >= 85 and hot.
C8_Scenario ==
    (scored /\ item = ScenarioItem) =>
        /\ ~lead.none
        /\ lead.pain.score >= 95
        /\ lead.authority.tier = "decision_maker"
        /\ lead.context.industry = "ecommerce"
        /\ lead.score.total >= 85
        /\ lead.score.tier = "hot"

\* the founder's signal has been scored
C8_Witness == scored /\ item = ScenarioItem /\ ~HasAny(item.text, emotion_words)

\* the fields of a return value other than discovered_at
Undated(l) ==
    IF l.none THEN l
    ELSE [f \in (DOMAIN l) \ {"discovered_at"} |-> l[f]]

C26_PainScore ==
    LET text == FullText(item)
        T == IF item.hours = NoHours THEN 0
             ELSE IF item.hours >= 20 THEN 35
             ELSE IF item.hours >= 5 THEN 25
             ELSE 15
        F == IF \E p \in {"every day", "every morning", "every week",
                           "each day", "each morning", "each week"} : Has(text, p)
             THEN 20 ELSE 0
        K == IF \E p \in {"data entry", "manual", "manually", "spreadsheet",
                           "excel", "copy", "copying", "paste", "pasting",
                           "reconciliation", "reconciling", "inventory",
                           "hiring", "hire"} : Has(text, p)
             THEN 15 ELSE 0
        E == IF \E p \in {"killing", "insane", "brutal", "hell", "nightmare"} :
                    Has(text, p)
             THEN 20 ELSE 0
        H == IF Has(text, "hiring") \/ Has(text, "headcount") THEN 25 ELSE 0
        capped == IF T + F + K + E + H > 100 THEN 100 ELSE T + F + K + E + H
    IN  /\ score_pain(text, item.hours) = capped
        /\ capped \in 0..100
        /\ (scored /\ ~lead.none) => lead.pain.score = capped

\* a lead was returned for a record on which all five detectors fire, with
\* the sum of 115 cut to 100
C26_Witness ==
    /\ scored /\ ~lead.none
    /\ item.hours = 20
    /\ item.text = {"every week", "insane", "hiring"}
    /\ lead.pain.score = 100

====
